---- MODULE Spec2Model ----
(***************************************************************************)
(* Model of the session-launch profile codec, the profile password         *)
(* encryption protocol (core/r_util/RSessionLaunchProfile.cpp) and the     *)
(* fork / main-thread tracker (session/SessionMainProcess.cpp).            *)
(*                                                                         *)
(* Strings are sequences of byte values (0..255).  Unsigned 64-bit values  *)
(* and the doubles that carry them are sets of bit positions, so that the  *)
(* real widths (64 bit integer, 53 bit significand) are kept.              *)
(***************************************************************************)
EXTENDS Integers, Sequences, FiniteSets, TLC

\* ------------------------------------------------------------------------
\* Bounds of the model (not program constants)
\* ------------------------------------------------------------------------
\* number of distinct outcomes of the random source that are explored
NumSeeds == 2
\* number of forks followed from the original process into a descendant
MaxGenerations == 2
\* number of threads a process may have
MaxThreads == 2

\* ------------------------------------------------------------------------
\* Bytes and strings
\* ------------------------------------------------------------------------
ByteRange == 256
Pipe == 124
Base64Pad == 61
KeyBytes == 32
IvBytes == 16
BlockBytes == 16

EmptyStr == << >>

Max(S) == CHOOSE x \in S : \A y \in S : y <= x
Min(S) == CHOOSE x \in S : \A y \in S : x <= y

\* core::algorithm::join({a, b}, delim)
join(parts, delim) ==
  LET RECURSIVE J(_)
      J(i) == IF i > Len(parts) THEN << >>
              ELSE IF i = Len(parts) THEN parts[i]
              ELSE parts[i] \o delim \o J(i + 1)
  IN J(1)

\* core::algorithm::split(str, delim) for a one byte delimiter: the pieces
\* between the delimiters, one more piece than there are delimiters
split(str, delim) ==
  LET RECURSIVE S(_, _)
      S(i, cur) == IF i > Len(str) THEN << cur >>
                   ELSE IF str[i] = delim THEN << cur >> \o S(i + 1, << >>)
                   ELSE S(i + 1, Append(cur, str[i]))
  IN S(1, << >>)

\* ------------------------------------------------------------------------
\* core::system::crypto collaborators
\* ------------------------------------------------------------------------
\* the i-th character of the base64 alphabet (A-Z a-z 0-9 + /)
B64Char(i) ==
  IF i < 26 THEN 65 + i
  ELSE IF i < 52 THEN 97 + (i - 26)
  ELSE IF i < 62 THEN 48 + (i - 52)
  ELSE IF i = 62 THEN 43 ELSE 47

\* the index of a character in the base64 alphabet, -1 when it is not in it
B64Index(c) ==
  IF c >= 65 /\ c <= 90 THEN c - 65
  ELSE IF c >= 97 /\ c <= 122 THEN c - 97 + 26
  ELSE IF c >= 48 /\ c <= 57 THEN c - 48 + 52
  ELSE IF c = 43 THEN 62
  ELSE IF c = 47 THEN 63
  ELSE -1

\* crypto::base64Encode(data, &encoded)
RECURSIVE base64Encode(_)
base64Encode(b) ==
  IF Len(b) = 0 THEN << >>
  ELSE IF Len(b) = 1 THEN
    << B64Char(b[1] \div 4), B64Char((b[1] % 4) * 16), Base64Pad, Base64Pad >>
  ELSE IF Len(b) = 2 THEN
    << B64Char(b[1] \div 4), B64Char((b[1] % 4) * 16 + (b[2] \div 16)),
       B64Char((b[2] % 16) * 4), Base64Pad >>
  ELSE
    << B64Char(b[1] \div 4), B64Char((b[1] % 4) * 16 + (b[2] \div 16)),
       B64Char((b[2] % 16) * 4 + (b[3] \div 64)), B64Char(b[3] % 64) >>
    \o base64Encode(SubSeq(b, 4, Len(b)))

\* is s well-formed base64 text
RECURSIVE IsBase64(_)
IsBase64(s) ==
  IF Len(s) = 0 THEN TRUE
  ELSE IF Len(s) < 4 THEN FALSE
  ELSE /\ B64Index(s[1]) >= 0
       /\ B64Index(s[2]) >= 0
       /\ IF Len(s) = 4
          THEN \/ B64Index(s[3]) >= 0 /\ B64Index(s[4]) >= 0
               \/ B64Index(s[3]) >= 0 /\ s[4] = Base64Pad
               \/ s[3] = Base64Pad /\ s[4] = Base64Pad
          ELSE /\ B64Index(s[3]) >= 0
               /\ B64Index(s[4]) >= 0
               /\ IsBase64(SubSeq(s, 5, Len(s)))

RECURSIVE B64Bytes(_)
B64Bytes(s) ==
  IF Len(s) = 0 THEN << >>
  ELSE
    LET i1 == B64Index(s[1])
        i2 == B64Index(s[2])
        i3 == B64Index(s[3])
        i4 == B64Index(s[4])
    IN IF s[3] = Base64Pad THEN << i1 * 4 + (i2 \div 16) >>
       ELSE IF s[4] = Base64Pad
         THEN << i1 * 4 + (i2 \div 16), (i2 % 16) * 16 + (i3 \div 4) >>
       ELSE << i1 * 4 + (i2 \div 16), (i2 % 16) * 16 + (i3 \div 4),
               (i3 % 4) * 64 + i4 >>
            \o B64Bytes(SubSeq(s, 5, Len(s)))

\* crypto::base64Decode(str, &bytes): an error on text that is not base64
base64Decode(s) ==
  IF IsBase64(s) THEN [error |-> FALSE, data |-> B64Bytes(s)]
  ELSE [error |-> TRUE, data |-> << >>]

\* crypto::random(n, &bytes): the bytes drawn for one outcome of the source
random(n, seed) == [i \in 1..n |-> (seed * 37 + i * 11) % ByteRange]

\* block padding of the cipher: 1..BlockBytes bytes, each the pad length
PadBlock(data) ==
  LET n == BlockBytes - (Len(data) % BlockBytes)
  IN data \o [i \in 1..n |-> n]

KeyStream(key, iv, i) ==
  key[((i - 1) % Len(key)) + 1] + iv[((i - 1) % Len(iv)) + 1]

\* crypto::aesEncrypt(data, key, iv, &encrypted)
aesEncrypt(data, key, iv) ==
  IF Len(key) # KeyBytes \/ Len(iv) # IvBytes
  THEN [error |-> TRUE, data |-> << >>]
  ELSE LET padded == PadBlock(data)
       IN [error |-> FALSE,
           data |-> [i \in 1..Len(padded) |->
                       (padded[i] + KeyStream(key, iv, i)) % ByteRange]]

\* crypto::aesDecrypt(data, key, iv, &decrypted): fails when the padding
\* that comes out is not a valid one
aesDecrypt(data, key, iv) ==
  IF Len(key) # KeyBytes \/ Len(iv) # IvBytes
     \/ Len(data) = 0 \/ Len(data) % BlockBytes # 0
  THEN [error |-> TRUE, data |-> << >>]
  ELSE LET plain == [i \in 1..Len(data) |->
                       (data[i] + 2 * ByteRange - KeyStream(key, iv, i))
                          % ByteRange]
           n == plain[Len(plain)]
       IN IF n >= 1 /\ n <= BlockBytes
             /\ \A i \in (Len(plain) - n + 1)..Len(plain) : plain[i] = n
          THEN [error |-> FALSE, data |-> SubSeq(plain, 1, Len(plain) - n)]
          ELSE [error |-> TRUE, data |-> << >>]

\* crypto::encryptDataAsBase64EncodedString(input, key, &iv, &encrypted);
\* ivBytes is the initialization vector the random source delivered
encryptDataAsBase64EncodedString(input, keyStr, ivBytes) ==
  LET enc == aesEncrypt(input, keyStr, ivBytes)
  IN IF enc.error THEN [error |-> TRUE, iv |-> << >>, encrypted |-> << >>]
     ELSE [error |-> FALSE, iv |-> base64Encode(ivBytes),
           encrypted |-> base64Encode(enc.data)]

\* crypto::decryptBase64EncodedString(input, key, ivStr, &decrypted)
decryptBase64EncodedString(input, keyStr, ivStr) ==
  LET ivDec == base64Decode(ivStr)
      inDec == base64Decode(input)
  IN IF ivDec.error \/ inDec.error THEN [error |-> TRUE, data |-> << >>]
     ELSE aesDecrypt(inDec.data, keyStr, ivDec.data)

\* ------------------------------------------------------------------------
\* Unsigned 64-bit limits and the doubles that carry them through decode.
\* A non-negative integer is the set of the positions of its one bits.
\* ------------------------------------------------------------------------
Uint64Bits == 64
DoubleSignificandBits == 53

\* the bit set of a small non-negative integer
Bits(n) == {i \in 0..30 : (n \div (2 ^ i)) % 2 = 1}

\* the small non-negative integer of a bit set (positions below 31)
RECURSIVE BitsValue(_)
BitsValue(b) ==
  IF b = {} THEN 0
  ELSE LET m == Max(b) IN 2 ^ m + BitsValue(b \ {m})

\* boost::uint64_t(limit): the value modulo 2^64
Uint64Cast(b) == {i \in b : i < Uint64Bits}

\* conversion of an unsigned integer to double: round to nearest, ties to
\* even, onto DoubleSignificandBits significant bits
ToDouble(b) ==
  IF b = {} THEN {}
  ELSE
    LET h == Max(b)
        cut == h - (DoubleSignificandBits - 1)
    IN IF cut <= 0 THEN b
       ELSE
         LET kept == {i \in b : i >= cut}
             dropped == {i \in b : i < cut}
             half == cut - 1
             roundUp == /\ half \in dropped
                        /\ \/ dropped # {half}
                           \/ cut \in kept
             \* lowest position at or above cut that is free in kept
             free == Min({i \in cut..(h + 1) : i \notin kept})
         IN IF roundUp
            THEN {i \in kept : i > free} \cup {free}
            ELSE kept

\* results of converting a double that is out of the range of the target
\* unsigned type (undefined in C++; what common targets produce)
OutOfRangeLimits == { {}, {Uint64Bits - 1}, 0..(Uint64Bits - 1) }

\* values an uninitialized double local may convert to
GarbageLimits == { {}, {0, 3} }

\* a double local: whether it was ever written, and its value
UninitDouble == [init |-> FALSE, v |-> {}]

\* RLimitType = double: the set of values the assignment may store
DoubleToRLimit(d) ==
  IF ~d.init THEN GarbageLimits
  ELSE IF d.v # {} /\ Max(d.v) >= Uint64Bits THEN OutOfRangeLimits
  ELSE {d.v}

\* ------------------------------------------------------------------------
\* Structured (JSON) values: a type tag and a payload
\* ------------------------------------------------------------------------
JStr(s) == [v |-> s, t |-> "str"]
JInt(b) == [v |-> b, t |-> "int"]
JBool(b) == [v |-> b, t |-> "bool"]
JArr(a) == [v |-> a, t |-> "arr"]
JObj(o) == [v |-> o, t |-> "obj"]

EmptyObj == << >>

\* json::isType<T>(value)
isType(type, jv) ==
  CASE type = "string" -> jv.t = "str"
    [] type = "object" -> jv.t = "obj"
    [] type = "array" -> jv.t = "arr"
    [] type = "bool" -> jv.t = "bool"
    [] type = "int" -> jv.t = "int"
    [] type = "double" -> jv.t = "int"

\* the value a typed read stores in its output
getValue(type, jv) ==
  CASE type = "int" -> BitsValue({i \in jv.v : i < 31})
    [] type = "double" -> [init |-> TRUE, v |-> ToDouble(jv.v)]
    [] OTHER -> jv.v

\* json::readObject(object, name1, &out1, name2, &out2, ...): reads the
\* members in order and stops at the first one missing or of another type;
\* outputs not reached keep the value they had
RECURSIVE readObject(_, _, _)
readObject(obj, fields, out) ==
  IF fields = << >> THEN [error |-> "", out |-> out]
  ELSE
    LET f == Head(fields)
    IN IF f.name \notin DOMAIN obj
       THEN [error |-> "MemberNotFound", out |-> out]
       ELSE IF ~isType(f.type, obj[f.name])
       THEN [error |-> "ParamTypeMismatch", out |-> out]
       ELSE readObject(obj, Tail(fields),
                       [out EXCEPT ![f.name] = getValue(f.type, obj[f.name])])

Field(n, ty) == [name |-> n, type |-> ty]

\* json::Array(args): one string element per argument, in order
ArgsToJson(args) == JArr([i \in 1..Len(args) |-> JStr(args[i])])

\* Array::toStringPairList() as used for args: the string elements, in order
RECURSIVE ArgsFromJson(_)
ArgsFromJson(arr) ==
  IF arr = << >> THEN << >>
  ELSE IF Head(arr).t = "str"
       THEN << Head(arr).v >> \o ArgsFromJson(Tail(arr))
       ELSE ArgsFromJson(Tail(arr))

\* json::Object(environment): one string member per variable
EnvToJson(env) == JObj([k \in DOMAIN env |-> JStr(env[k])])

\* Object::toStringPairList() as used for the environment: the members
\* that hold strings
EnvFromJson(obj) ==
  LET keys == {k \in DOMAIN obj : obj[k].t = "str"}
  IN [k \in keys |-> obj[k].v]

\* json::toJsonArray(cpuAffinity)
toJsonArray(aff) == JArr([i \in 1..Len(aff) |-> JBool(aff[i])])

\* ------------------------------------------------------------------------
\* RSessionLaunchProfile.cpp: the codec
\* ------------------------------------------------------------------------
\* SessionScope::fromProjectId(project, id)
fromProjectId(project, id) == [project |-> project, id |-> id]

\* a default constructed SessionLaunchProfile
DefaultProfile ==
  [context |-> [username |-> EmptyStr, scope |-> fromProjectId(EmptyStr, EmptyStr)],
   password |-> EmptyStr,
   encryptionKey |-> EmptyStr,
   executablePath |-> EmptyStr,
   config |-> [args |-> << >>,
               environment |-> EmptyObj,
               stdInput |-> EmptyStr,
               stdStreamBehavior |-> 0,
               limits |-> [priority |-> 0,
                           memoryLimitBytes |-> {},
                           stackLimitBytes |-> {},
                           userProcessesLimit |-> {},
                           cpuLimit |-> {},
                           niceLimit |-> {},
                           filesLimit |-> {},
                           cpuAffinity |-> << >>]]]

contextAsJson(context) ==
  JObj([project |-> JStr(context.scope.project),
        id |-> JStr(context.scope.id),
        username |-> JStr(context.username)])

contextFromJson(contextJson, context) ==
  LET rd == readObject(contextJson,
                       << Field("username", "string"),
                          Field("project", "string"),
                          Field("id", "string") >>,
                       [project |-> EmptyStr,
                        id |-> EmptyStr,
                        username |-> context.username])
  IN IF rd.error # ""
     THEN [error |-> rd.error,
           context |-> [context EXCEPT !.username = rd.out.username]]
     ELSE [error |-> "",
           context |-> [username |-> rd.out.username,
                        scope |-> fromProjectId(rd.out.project, rd.out.id)]]

\* a conversion that skips the elements that are no booleans
cpuAffinityFromJson_SkipsNonBool(affinityJson, affinity) ==
  [error |-> "",
   affinity |-> [i \in 1..Len(SelectSeq(affinityJson, LAMBDA e : e.t = "bool"))
                   |-> SelectSeq(affinityJson, LAMBDA e : e.t = "bool")[i].v]]

\* cpuAffinityFromJson: the affinity is left holding the elements before
\* the first one that is not a boolean
RECURSIVE cpuAffinityFromJson(_, _)
cpuAffinityFromJson(affinityJson, affinity) ==
  IF affinityJson = << >> THEN [error |-> "", affinity |-> affinity]
  ELSE IF ~isType("bool", Head(affinityJson))
       THEN [error |-> "ParamTypeMismatch", affinity |-> affinity]
       ELSE cpuAffinityFromJson(Tail(affinityJson),
                                Append(affinity, Head(affinityJson).v))

\* a conversion that checks the limit against the signed 64-bit range and
\* falls back to 0
toJson_SignedRange(limit) ==
  IF Uint64Bits - 1 \in limit THEN JInt({}) ELSE JInt(Uint64Cast(limit))

\* toJson(RLimitType limit): the conversion to uint64 does not throw
toJson(limit) == JInt(Uint64Cast(limit))

sessionLaunchProfileToJson(profile) ==
  JObj([context |-> contextAsJson(profile.context),
        password |-> JStr(profile.password),
        encryptionKey |-> JStr(profile.encryptionKey),
        executablePath |-> JStr(profile.executablePath),
        config |-> JObj(
          [args |-> ArgsToJson(profile.config.args),
           environment |-> EnvToJson(profile.config.environment),
           stdInput |-> JStr(profile.config.stdInput),
           stdStreamBehavior |-> JInt(Bits(profile.config.stdStreamBehavior)),
           priority |-> JInt(Bits(profile.config.limits.priority)),
           memoryLimitBytes |-> toJson(profile.config.limits.memoryLimitBytes),
           stackLimitBytes |-> toJson(profile.config.limits.stackLimitBytes),
           userProcessesLimit |-> toJson(profile.config.limits.userProcessesLimit),
           cpuLimit |-> toJson(profile.config.limits.cpuLimit),
           niceLimit |-> toJson(profile.config.limits.niceLimit),
           filesLimit |-> toJson(profile.config.limits.filesLimit),
           cpuAffinity |-> toJsonArray(profile.config.limits.cpuAffinity)])])

\* the reads of sessionLaunchProfileFromJson, with the errors they log
FromJsonReads(jsonProfile) ==
  LET top == readObject(jsonProfile,
                        << Field("context", "object"),
                           Field("password", "string"),
                           Field("encryptionKey", "string"),
                           Field("executablePath", "string"),
                           Field("config", "object") >>,
                        [context |-> EmptyObj,
                         password |-> EmptyStr,
                         encryptionKey |-> EmptyStr,
                         executablePath |-> EmptyStr,
                         config |-> EmptyObj])
      ctx == contextFromJson(top.out.context, DefaultProfile.context)
      cfg == readObject(top.out.config,
                        << Field("args", "array"),
                           Field("environment", "object"),
                           Field("stdInput", "string"),
                           Field("stdStreamBehavior", "int"),
                           Field("priority", "int"),
                           Field("memoryLimitBytes", "double"),
                           Field("stackLimitBytes", "double"),
                           Field("userProcessesLimit", "double"),
                           Field("cpuLimit", "double"),
                           Field("niceLimit", "double"),
                           Field("filesLimit", "double") >>,
                        [args |-> << >>,
                         environment |-> EmptyObj,
                         stdInput |-> EmptyStr,
                         stdStreamBehavior |-> 0,
                         priority |-> 0,
                         memoryLimitBytes |-> UninitDouble,
                         stackLimitBytes |-> UninitDouble,
                         userProcessesLimit |-> UninitDouble,
                         cpuLimit |-> UninitDouble,
                         niceLimit |-> UninitDouble,
                         filesLimit |-> UninitDouble])
      affRd == readObject(top.out.config,
                          << Field("cpuAffinity", "array") >>,
                          [cpuAffinity |-> << >>])
      aff == cpuAffinityFromJson(affRd.out.cpuAffinity, << >>)
  IN [top |-> top, ctx |-> ctx, cfg |-> cfg, affRd |-> affRd, aff |-> aff,
      cpuAffinity |-> IF aff.error # "" THEN << >> ELSE aff.affinity]

\* the results of the five reads of sessionLaunchProfileFromJson, in the
\* order of the code: top-level members, context, config members, the
\* cpuAffinity member, cpuAffinityFromJson; each one that is an error is
\* written to the log
FromJsonLog(jsonProfile) ==
  LET r == FromJsonReads(jsonProfile)
  IN << r.top.error, r.ctx.error, r.cfg.error, r.affRd.error, r.aff.error >>

\* sessionLaunchProfileFromJson: the profiles the call may return (more than
\* one only where a double that was never written, or is out of range, is
\* converted to a limit)
sessionLaunchProfileFromJson(jsonProfile) ==
  LET r == FromJsonReads(jsonProfile)
      c == r.cfg.out
  IN { [context |-> r.ctx.context,
        password |-> r.top.out.password,
        encryptionKey |-> r.top.out.encryptionKey,
        executablePath |-> r.top.out.executablePath,
        config |-> [args |-> ArgsFromJson(c.args),
                    environment |-> EnvFromJson(c.environment),
                    stdInput |-> c.stdInput,
                    stdStreamBehavior |-> c.stdStreamBehavior,
                    limits |-> [priority |-> c.priority,
                                memoryLimitBytes |-> l[1],
                                stackLimitBytes |-> l[2],
                                userProcessesLimit |-> l[3],
                                cpuLimit |-> l[4],
                                niceLimit |-> l[5],
                                filesLimit |-> l[6],
                                cpuAffinity |-> r.cpuAffinity]]] :
       l \in DoubleToRLimit(c.memoryLimitBytes)
             \X DoubleToRLimit(c.stackLimitBytes)
             \X DoubleToRLimit(c.userProcessesLimit)
             \X DoubleToRLimit(c.cpuLimit)
             \X DoubleToRLimit(c.niceLimit)
             \X DoubleToRLimit(c.filesLimit) }

\* ------------------------------------------------------------------------
\* RSessionLaunchProfile.cpp: the password encryption protocol
\* ------------------------------------------------------------------------
InvalidKeyFormat == "Profile password encryption key invalid format"

\* the result of a call: the error ("" for Success()), the profile and the
\* caller's encryptedPassword string after it, the collaborators it called
CallResult(error, profile, encryptedPassword, steps) ==
  [error |-> error, profile |-> profile,
   encryptedPassword |-> encryptedPassword, steps |-> steps]

\* faulty variant: the initialization vector is put before the key
MakeEncryptionKey_Swapped(base64PasswordKey, ivPasswordKey) ==
  join(<< ivPasswordKey, base64PasswordKey >>, << Pipe >>)

\* the string stored as profile.encryptionKey
MakeEncryptionKey(base64PasswordKey, ivPasswordKey) ==
  join(<< base64PasswordKey, ivPasswordKey >>, << Pipe >>)

\* faulty variant: the plaintext password is not dropped
EncryptedProfile_KeepsPassword(profile, encryptionKey) ==
  [profile EXCEPT !.encryptionKey = encryptionKey]

\* the writes to the profile at the end of encryptProfilePassword
EncryptedProfile(profile, encryptionKey) ==
  [profile EXCEPT !.password = EmptyStr, !.encryptionKey = encryptionKey]

\* faulty variant: the password is already blanked when an error is returned
EncryptFailed_Blanked(error, profile, encryptedPassword, steps) ==
  CallResult(error, [profile EXCEPT !.password = EmptyStr],
             encryptedPassword, steps)

\* the early returns of encryptProfilePassword
EncryptFailed(error, profile, encryptedPassword, steps) ==
  CallResult(error, profile, encryptedPassword, steps)

\* faulty variant: the encrypted password is kept in the profile in place of
\* the plaintext one
encryptProfilePassword_StoresBlob(profile, encryptedPassword, seed, fail) ==
  IF fail = "random"
  THEN EncryptFailed("random", profile, encryptedPassword, << "random" >>)
  ELSE
    LET passwordKey == random(KeyBytes, seed)
        enc == encryptDataAsBase64EncodedString(profile.password, passwordKey,
                                                random(IvBytes, seed + KeyBytes))
    IN IF fail = "encrypt" \/ enc.error
       THEN EncryptFailed("encryptDataAsBase64EncodedString", profile,
                          encryptedPassword, << "random", "encrypt" >>)
       ELSE IF fail = "base64Encode"
       THEN EncryptFailed("base64Encode", profile, enc.encrypted,
                          << "random", "encrypt", "base64Encode" >>)
       ELSE CallResult("",
                       [profile EXCEPT
                          !.password = enc.encrypted,
                          !.encryptionKey =
                             MakeEncryptionKey(base64Encode(passwordKey), enc.iv)],
                       enc.encrypted,
                       << "random", "encrypt", "base64Encode" >>)

\* encryptProfilePassword(profile, &encryptedPassword).  seed selects what
\* the random source delivers (first the key, then the initialization
\* vector), fail the collaborator call that reports an error ("none": none)
encryptProfilePassword(profile, encryptedPassword, seed, fail) ==
  IF fail = "random"
  THEN EncryptFailed("random", profile, encryptedPassword, << "random" >>)
  ELSE
    LET passwordKey == random(KeyBytes, seed)
        passwordKeyStr == passwordKey
        enc == encryptDataAsBase64EncodedString(profile.password,
                                                passwordKeyStr,
                                                random(IvBytes, seed + KeyBytes))
    IN IF fail = "encrypt" \/ enc.error
       THEN EncryptFailed("encryptDataAsBase64EncodedString", profile,
                          encryptedPassword, << "random", "encrypt" >>)
       ELSE IF fail = "base64Encode"
       THEN EncryptFailed("base64Encode", profile, enc.encrypted,
                          << "random", "encrypt", "base64Encode" >>)
       ELSE CallResult("",
                       EncryptedProfile(profile,
                          MakeEncryptionKey(base64Encode(passwordKey), enc.iv)),
                       enc.encrypted,
                       << "random", "encrypt", "base64Encode" >>)

\* faulty variant: more than two parts are let through
KeyFormatValid_AtLeastTwo(passwordKeyParts) == Len(passwordKeyParts) >= 2

\* the test on the parts of the encryption key
KeyFormatValid(passwordKeyParts) == Len(passwordKeyParts) = 2

\* the writes to the profile at the end of decryptProfilePassword
\* faulty variant: the recovered password is stored and the key is kept
DecryptedProfile_KeepsKey(profile, decryptedPassword) ==
  [profile EXCEPT !.password = decryptedPassword]

DecryptedProfile(profile, decryptedPassword) ==
  [profile EXCEPT !.password = decryptedPassword, !.encryptionKey = EmptyStr]

\* faulty variant: the key material is dropped although nothing was decrypted
DecryptFailed_ClearsKey(error, profile, encryptedPassword, steps) ==
  CallResult(error, [profile EXCEPT !.encryptionKey = EmptyStr],
             encryptedPassword, steps)

\* the early returns of decryptProfilePassword after the format check
DecryptFailed(error, profile, encryptedPassword, steps) ==
  CallResult(error, profile, encryptedPassword, steps)

\* decryptProfilePassword(profile, encryptedPassword)
decryptProfilePassword(profile, encryptedPassword) ==
  LET passwordKeyParts == split(profile.encryptionKey, Pipe)
  IN IF ~KeyFormatValid(passwordKeyParts)
     THEN CallResult(InvalidKeyFormat, profile, encryptedPassword,
                     << "split" >>)
     ELSE
       LET passwordKey == passwordKeyParts[1]
           ivPasswordKey == passwordKeyParts[2]
           keyBin == base64Decode(passwordKey)
       IN IF keyBin.error
          THEN DecryptFailed("base64Decode", profile, encryptedPassword,
                             << "split", "base64Decode" >>)
          ELSE
            LET dec == decryptBase64EncodedString(encryptedPassword,
                                                  keyBin.data, ivPasswordKey)
            IN IF dec.error
               THEN DecryptFailed("decryptBase64EncodedString", profile,
                                  encryptedPassword,
                                  << "split", "base64Decode", "decrypt" >>)
               ELSE CallResult("", DecryptedProfile(profile, dec.data),
                               encryptedPassword,
                               << "split", "base64Decode", "decrypt" >>)

\* ------------------------------------------------------------------------
\* Inputs explored
\* ------------------------------------------------------------------------
Seeds == 1..NumSeeds

\* 2 000 000 000
TwoBillion == {10, 12, 15, 16, 18, 20, 21, 24, 25, 26, 28, 29, 30}

\* the passwords are "", "s3cr3t", "a|b" and "0123456789abcdef" (one cipher
\* block)
\* alice, proj/id1, /usr/bin/rsession --flag, stdin "s3cr3t"
ProfileA ==
  [context |-> [username |-> << 97, 108, 105, 99, 101 >>,
                scope |-> fromProjectId(<< 112, 114, 111, 106 >>,
                                        << 105, 100, 49 >>)],
   password |-> EmptyStr,
   encryptionKey |-> EmptyStr,
   executablePath |-> << 47, 117, 115, 114, 47, 98, 105, 110, 47, 114, 115,
                         101, 115, 115, 105, 111, 110 >>,
   config |-> [args |-> << << 45, 45, 102, 108, 97, 103 >> >>,
               environment |-> EmptyObj,
               stdInput |-> << 115, 51, 99, 114, 51, 116 >>,
               stdStreamBehavior |-> 0,
               limits |-> [priority |-> 0,
                           memoryLimitBytes |-> TwoBillion,
                           stackLimitBytes |-> {},
                           userProcessesLimit |-> {},
                           cpuLimit |-> {},
                           niceLimit |-> {},
                           filesLimit |-> {},
                           cpuAffinity |-> << TRUE, FALSE, TRUE >>]]]

\* bob, no scope, args -a -b, environment K=V PATH=/bin, small limits that
\* all differ
ProfileB ==
  [context |-> [username |-> << 98, 111, 98 >>,
                scope |-> fromProjectId(EmptyStr, EmptyStr)],
   password |-> EmptyStr,
   encryptionKey |-> EmptyStr,
   executablePath |-> << 47, 98, 105, 110 >>,
   config |-> [args |-> << << 45, 97 >>, << 45, 98 >> >>,
               environment |-> (<< 75 >> :> << 86 >>)
                               @@ (<< 80, 65, 84, 72 >> :> << 47, 98, 105, 110 >>),
               stdInput |-> << 105, 110 >>,
               stdStreamBehavior |-> 1,
               limits |-> [priority |-> 5,
                           memoryLimitBytes |-> Bits(1),
                           stackLimitBytes |-> Bits(2),
                           userProcessesLimit |-> Bits(3),
                           cpuLimit |-> Bits(4),
                           niceLimit |-> Bits(5),
                           filesLimit |-> Bits(6),
                           cpuAffinity |-> << >>]]]

\* limits at the edge of what a double holds exactly: 2^53, 2^53 + 1,
\* 2^64 - 2^11, and the unlimited value 2^64 - 1
ProfileC ==
  [ProfileB EXCEPT
     !.config.limits.memoryLimitBytes = {DoubleSignificandBits},
     !.config.limits.stackLimitBytes = {0, DoubleSignificandBits},
     !.config.limits.cpuLimit = 11..(Uint64Bits - 1),
     !.config.limits.filesLimit = 0..(Uint64Bits - 1),
     !.config.limits.cpuAffinity = << FALSE >>]

\* the initial profiles: a plaintext password, no encryption key
ProfileSamples ==
  { [ProfileA EXCEPT !.password = << >>],
    [ProfileA EXCEPT !.password = << 115, 51, 99, 114, 51, 116 >>],
    [ProfileB EXCEPT !.password = << 97, 124, 98 >>],
    [ProfileC EXCEPT !.password =
       << 48, 49, 50, 51, 52, 53, 54, 55, 56, 57, 97, 98, 99, 100, 101, 102 >>] }

\* encryption keys that did not come out of encryptProfilePassword:
\* "", "abc", "a|b|c", "|", "!!|AAAA"
ForeignKeys ==
  { << >>,
    << 97, 98, 99 >>,
    << 97, 124, 98, 124, 99 >>,
    << 124 >>,
    << 33, 33, 124, 65, 65, 65, 65 >> }

\* structured profiles that arrive from elsewhere
ForeignWires ==
  {sessionLaunchProfileToJson([DefaultProfile EXCEPT !.encryptionKey = k,
                                                     !.password = << 120 >>]) :
     k \in ForeignKeys}

\* object[name] = value, and the object without the member name
SetMember(obj, name, val) ==
  [k \in (DOMAIN obj) \cup {name} |-> IF k = name THEN val ELSE obj[k]]

RemoveMember(obj, name) == [k \in (DOMAIN obj) \ {name} |-> obj[k]]

\* a complete structured profile: ProfileA with password "pw" and
\* encryptionKey "a|b"
FullWire ==
  sessionLaunchProfileToJson(
    [ProfileA EXCEPT !.password = << 112, 119 >>,
                     !.encryptionKey = << 97, 124, 98 >>]).v

\* FullWire with the member name of its config object set to val, or removed
WithConfig(name, val) ==
  SetMember(FullWire, "config", JObj(SetMember(FullWire.config.v, name, val)))

WithoutConfig(name) ==
  SetMember(FullWire, "config", JObj(RemoveMember(FullWire.config.v, name)))

\* cpuAffinity arrays with an element that is not a boolean:
\* [true, 1, false], [1, true], [true, false, "x"], ["x"]
MixedAffinities ==
  << << JBool(TRUE), JInt({0}), JBool(FALSE) >>,
     << JInt({0}), JBool(TRUE) >>,
     << JBool(TRUE), JBool(FALSE), JStr(<< 120 >>) >>,
     << JStr(<< 120 >>) >> >>

\* structured profiles with a malformed cpuAffinity array
AffinityWires ==
  [i \in 1..Len(MixedAffinities) |->
     JObj(WithConfig("cpuAffinity", JArr(MixedAffinities[i])))]

\* structured profiles with a top-level member missing or of another type
TopLevelWires ==
  << JObj(RemoveMember(FullWire, "password")),
     JObj(SetMember(FullWire, "password", JInt({0}))),
     JObj(RemoveMember(FullWire, "context")),
     JObj(SetMember(FullWire, "context",
                    JObj(RemoveMember(FullWire.context.v, "id")))),
     JObj(SetMember(FullWire, "context",
                    JObj(RemoveMember(FullWire.context.v, "username")))),
     JObj(RemoveMember(FullWire, "executablePath")),
     JObj(RemoveMember(FullWire, "config")),
     JObj(SetMember(FullWire, "config", JArr(<< >>))),
     JObj(EmptyObj) >>

\* structured profiles with a config member missing or of another type
ConfigWires ==
  << JObj(WithoutConfig("args")),
     JObj(WithoutConfig("stdInput")),
     JObj(WithConfig("priority", JStr(<< 53 >>))),
     JObj(WithConfig("memoryLimitBytes", JStr(<< 49 >>))),
     JObj(WithoutConfig("niceLimit")),
     JObj(WithoutConfig("filesLimit")),
     JObj(WithoutConfig("cpuAffinity")),
     JObj(WithConfig("cpuAffinity", JBool(TRUE))) >>

\* the structured values given to the decoder, one after the other
DecodeWires ==
  << JObj(FullWire) >> \o AffinityWires \o TopLevelWires \o ConfigWires

\* blobs a caller may pass that no encryption returned:
\* "not base64!", "AAAAAAAAAAAAAAAAAAAAAA==" (one block of zero bytes)
ForeignBlobs ==
  { << 110, 111, 116, 32, 98, 97, 115, 101, 54, 52, 33 >>,
    << 65, 65, 65, 65, 65, 65, 65, 65, 65, 65, 65, 65, 65, 65, 65, 65, 65, 65,
       65, 65, 65, 65, 61, 61 >> }

Failures == {"none", "random", "encrypt", "base64Encode"}

\* ------------------------------------------------------------------------
\* State
\* ------------------------------------------------------------------------
VARIABLES
  profile,            \* the caller's SessionLaunchProfile
  encryptedPassword,  \* the caller's string that receives the encrypted blob
  wire,               \* the structured profile in transit (a json::Object)
  wireSrc,            \* history: what the structured profile was encoded from
  encInfo,            \* history: the encryption the profile is under
  origin,             \* history: the encryption a decoded profile descends from
  last,               \* history: the last call
  decrypted,          \* history: the password of the profile was recovered by
                      \* decryptProfilePassword
  threads,            \* the threads of the process
  usedTids,           \* thread identities used in the process and its ancestors
  s_mainThreadId,     \* 0 is the default constructed id
  s_wasForked,
  t_isMainThread,     \* per thread: the thread-local pointer is set
  handlers,           \* the fork handlers are registered
  pc,                 \* per thread: position around a fork
  generation,         \* history: forks between the original process and this
  hookRan,            \* history: atForkChild has run in this process
  hasForked,          \* history: this process has forked a child
  initCallers,        \* history: the threads that executed initThreadId
  initCalls,          \* history: calls of initThreadId, 2 for two or more
  initCallsHere,      \* history: the calls made in this process alone; 2 also
                      \* when an ancestor made two or more
  logged,             \* the error messages written to the log
  result              \* the last value isMainThread returned in the process

profileVars == << profile, encryptedPassword, wire, wireSrc, encInfo, origin,
                  last, decrypted >>

trackerVars == << threads, usedTids, s_mainThreadId, s_wasForked,
                  t_isMainThread, handlers, pc, generation, hookRan,
                  hasForked, initCallers, initCalls, initCallsHere, logged,
                  result >>

vars == << profile, encryptedPassword, wire, wireSrc, encInfo, origin, last,
           decrypted,
           threads, usedTids, s_mainThreadId, s_wasForked, t_isMainThread,
           handlers, pc, generation, hookRan, hasForked, initCallers,
           initCalls, initCallsHere, logged, result >>

Tids == 1..MaxThreads
NoThread == 0

\* isMainThread has not returned yet; otherwise t is the calling thread and
\* res the value returned to it
NoResult == [t |-> NoThread, res |-> FALSE]

\* no encryption is in effect; otherwise orig is the profile as it was
\* before encryptProfilePassword and blob what the call returned
NoEncryption == [active |-> FALSE, orig |-> DefaultProfile, blob |-> EmptyStr]

NoWireSrc == [enc |-> NoEncryption, profile |-> DefaultProfile,
              set |-> FALSE, known |-> FALSE]

\* the last call: its name, the error it returned, the collaborators it
\* called, the blob it was given, and whether that blob was the one returned
\* by the encryption the profile was under ("enc") or descends from ("origin")
LastCall(op, error, steps, blob, paired) ==
  [op |-> op, error |-> error, steps |-> steps, blob |-> blob,
   paired |-> paired]

ProfileInit ==
  /\ profile \in ProfileSamples \cup {DefaultProfile}
  /\ encryptedPassword = EmptyStr
  /\ wire = EmptyObj
  /\ wireSrc = NoWireSrc
  /\ encInfo = NoEncryption
  /\ origin = NoEncryption
  /\ last = LastCall("none", "", << >>, EmptyStr, "none")
  /\ decrypted = FALSE

\* SessionMainProcess.cpp: the statics after program start.  The tracker
\* state is that of one process; at a fork the model goes on with either the
\* parent or the child, whose memory is a copy of the parent's
TrackerInit ==
  /\ threads = {1}
  /\ usedTids = {1}
  /\ s_mainThreadId = NoThread
  /\ s_wasForked = FALSE
  /\ t_isMainThread = [t \in Tids |-> FALSE]
  /\ handlers = FALSE
  /\ pc = [t \in Tids |-> "run"]
  /\ generation = 0
  /\ hookRan = FALSE
  /\ hasForked = FALSE
  /\ initCallers = {}
  /\ initCalls = 0
  /\ initCallsHere = 0
  /\ logged = {}
  /\ result = NoResult

\* ------------------------------------------------------------------------
\* Operations on the profile
\* ------------------------------------------------------------------------
\* error = encryptProfilePassword(profile, &encryptedPassword)
Encrypt(seed, fail) ==
  /\ ~wireSrc.set
  /\ \E r \in {encryptProfilePassword(profile, encryptedPassword, seed, fail)} :
     /\ profile' = r.profile
     /\ encryptedPassword' = r.encryptedPassword
     /\ encInfo' = IF r.error = ""
                   THEN [active |-> TRUE, orig |-> profile,
                         blob |-> r.encryptedPassword]
                   ELSE encInfo
     /\ origin' = IF r.error = "" THEN NoEncryption ELSE origin
     /\ last' = LastCall("encrypt", r.error, r.steps, EmptyStr, "none")
     /\ decrypted' = IF r.error = "" THEN FALSE ELSE decrypted
     /\ UNCHANGED << wire, wireSrc >>
     /\ UNCHANGED trackerVars

\* the blobs a caller has at hand
BlobChoices ==
  ForeignBlobs \cup {encryptedPassword, encInfo.blob, origin.blob}

\* error = decryptProfilePassword(profile, blob)
Decrypt(blob) ==
  /\ ~wireSrc.set
  /\ \E r \in {decryptProfilePassword(profile, blob)} :
     /\ profile' = r.profile
     /\ encInfo' = IF r.error = "" THEN NoEncryption ELSE encInfo
     /\ origin' = IF r.error = "" THEN NoEncryption ELSE origin
     /\ last' = LastCall("decrypt", r.error, r.steps, blob,
                         IF encInfo.active /\ blob = encInfo.blob THEN "enc"
                         ELSE IF origin.active /\ blob = origin.blob
                              THEN "origin"
                         ELSE "none")
     /\ decrypted' = IF r.error = "" THEN TRUE ELSE decrypted
     /\ UNCHANGED << encryptedPassword, wire, wireSrc >>
     /\ UNCHANGED trackerVars

\* wire = sessionLaunchProfileToJson(profile), handed to the transport; the
\* transport carries one structured profile at a time and the receiver
\* decodes it before anything else is done with a profile
ToJson ==
  /\ ~wireSrc.set
  /\ wire' = sessionLaunchProfileToJson(profile).v
  /\ wireSrc' = [set |-> TRUE, known |-> TRUE, profile |-> profile,
                 enc |-> encInfo]
  /\ last' = LastCall("toJson", "", << >>, EmptyStr, "none")
  /\ UNCHANGED << profile, encryptedPassword, encInfo, origin, decrypted >>
  /\ UNCHANGED trackerVars

\* a structured profile arrives from elsewhere
Receive(j) ==
  /\ ~wireSrc.set
  /\ wire' = j.v
  /\ wireSrc' = [NoWireSrc EXCEPT !.set = TRUE]
  /\ last' = LastCall("receive", "", << >>, EmptyStr, "none")
  /\ UNCHANGED << profile, encryptedPassword, encInfo, origin, decrypted >>
  /\ UNCHANGED trackerVars

\* profile = sessionLaunchProfileFromJson(wire): the structured profile is
\* taken from the transport and the caller's profile replaced by the decoded
\* one
FromJson ==
  /\ wireSrc.set
  /\ profile' \in sessionLaunchProfileFromJson(wire)
  /\ wire' = EmptyObj
  /\ wireSrc' = NoWireSrc
  /\ encInfo' = NoEncryption
  /\ origin' = wireSrc.enc
  /\ last' = LastCall("fromJson", "", FromJsonLog(wire), EmptyStr, "none")
  /\ decrypted' = FALSE
  /\ UNCHANGED encryptedPassword
  /\ UNCHANGED trackerVars

\* ------------------------------------------------------------------------
\* SessionMainProcess.cpp: the fork and main-thread tracker
\* ------------------------------------------------------------------------
WrongResult == "isMainThreadCheck - wrong result!"

\* wasForked()
wasForked == s_wasForked

\* a hook that flips the flag instead of setting it
atForkChild_Toggle == ~s_wasForked

\* the value atForkChild() writes to s_wasForked
atForkChild == TRUE

\* sysIsMainThread() called on thread t
sysIsMainThread(t) == t = s_mainThreadId

\* a query that returns the comparison of the system identity
isMainThread_SystemIdentity(t) == sysIsMainThread(t)

\* the value isMainThread() returns on thread t: whether the thread-local
\* pointer is set
isMainThread(t) == t_isMainThread[t]

\* the writes of initThreadId() called on thread t
InitMainThreadId(t) == t

\* a flag shared by the threads of the process instead of a thread-local one
InitThreadLocal_ProcessWide(t) == [u \in Tids |-> TRUE]

InitThreadLocal(t) == [t_isMainThread EXCEPT ![t] = TRUE]

\* thread-local storage that does not outlast the fork
ChildThreadLocal_Cleared(t) == [u \in Tids |-> FALSE]

\* the thread-local values of the child of a fork made on thread t: only the
\* forking thread exists in the child, and it keeps its value
ChildThreadLocal(t) == [u \in Tids |-> u = t /\ t_isMainThread[t]]

\* thread t is not inside fork()
Running(t) == t \in threads /\ pc[t] = "run"

\* setupForkHandlers(); rc is what pthread_atfork returns
SetupForkHandlers(t, rc) ==
  /\ Running(t)
  /\ IF rc = 0
     THEN /\ handlers' = TRUE
          /\ UNCHANGED logged
     ELSE /\ logged' = logged \cup {"systemError"}
          /\ UNCHANGED handlers
  /\ UNCHANGED << threads, usedTids, s_mainThreadId, s_wasForked,
                  t_isMainThread, pc, generation, hookRan, hasForked,
                  initCallers, initCalls, initCallsHere, result >>
  /\ UNCHANGED profileVars

\* initThreadId()
InitThreadId(t) ==
  /\ Running(t)
  /\ s_mainThreadId' = InitMainThreadId(t)
  /\ t_isMainThread' = InitThreadLocal(t)
  /\ initCallers' = initCallers \cup {t}
  /\ initCalls' = IF initCalls < 2 THEN initCalls + 1 ELSE initCalls
  /\ initCallsHere' = IF initCallsHere < 2 THEN initCallsHere + 1
                      ELSE initCallsHere
  /\ UNCHANGED << threads, usedTids, s_wasForked, handlers, pc, generation,
                  hookRan, hasForked, logged, result >>
  /\ UNCHANGED profileVars

\* isMainThread() called on thread t
IsMainThread(t) ==
  /\ Running(t)
  /\ result' = [t |-> t, res |-> isMainThread(t)]
  /\ logged' = IF isMainThread(t) # sysIsMainThread(t)
               THEN logged \cup {WrongResult}
               ELSE logged
  /\ UNCHANGED << threads, usedTids, s_mainThreadId, s_wasForked,
                  t_isMainThread, handlers, pc, generation, hookRan,
                  hasForked, initCallers, initCalls, initCallsHere >>
  /\ UNCHANGED profileVars

\* thread t starts thread n, which has a new identity and no thread-local
\* value
SpawnThread(t, n) ==
  /\ Running(t)
  /\ n \notin usedTids
  /\ threads' = threads \cup {n}
  /\ usedTids' = usedTids \cup {n}
  /\ UNCHANGED << s_mainThreadId, s_wasForked, t_isMainThread, handlers, pc,
                  generation, hookRan, hasForked, initCallers, initCalls,
                  initCallsHere,
                  logged, result >>
  /\ UNCHANGED profileVars

\* fork() on thread t begins: prepareFork() runs; it returns without a write
\* on either branch
PrepareFork(t) ==
  /\ Running(t)
  /\ handlers
  /\ pc' = [pc EXCEPT ![t] = "fork"]
  /\ UNCHANGED << threads, usedTids, s_mainThreadId, s_wasForked,
                  t_isMainThread, handlers, generation, hookRan, hasForked,
                  initCallers, initCalls, initCallsHere, logged, result >>
  /\ UNCHANGED profileVars

\* the system call returns in the parent
InParent(t, pcParent) ==
  /\ pc' = [pc EXCEPT ![t] = pcParent]
  /\ hasForked' = TRUE
  /\ UNCHANGED << threads, usedTids, s_mainThreadId, s_wasForked,
                  t_isMainThread, handlers, generation, hookRan, initCallers,
                  initCalls, initCallsHere, logged, result >>
  /\ UNCHANGED profileVars

\* the system call returns in the child: a copy of the parent's memory in
\* which only the forking thread exists
InChild(t, pcChild) ==
  /\ generation < MaxGenerations
  /\ threads' = {t}
  /\ t_isMainThread' = ChildThreadLocal(t)
  /\ pc' = [u \in Tids |-> IF u = t THEN pcChild ELSE "run"]
  /\ generation' = generation + 1
  /\ hookRan' = FALSE
  /\ hasForked' = FALSE
  /\ initCallers' = initCallers \cap {t}
  /\ initCallsHere' = IF initCallsHere < 2 THEN 0 ELSE initCallsHere
  /\ result' = NoResult
  /\ UNCHANGED << usedTids, s_mainThreadId, s_wasForked, handlers, initCalls,
                  logged >>
  /\ UNCHANGED profileVars

\* the system call of a fork with handlers registered, seen from the parent
ForkSyscallParent(t) ==
  /\ t \in threads /\ pc[t] = "fork"
  /\ InParent(t, "atForkParent")

\* the same, seen from the child
ForkSyscallChild(t) ==
  /\ t \in threads /\ pc[t] = "fork"
  /\ InChild(t, "atForkChild")

\* fork() in a process that registered no handlers, seen from the parent
ForkNoHandlersParent(t) ==
  /\ Running(t)
  /\ ~handlers
  /\ InParent(t, "run")

\* the same, seen from the child
ForkNoHandlersChild(t) ==
  /\ Running(t)
  /\ ~handlers
  /\ InChild(t, "run")

\* a parent hook that records the fork in the parent as well
AtForkParent_MarksForked(t) ==
  /\ t \in threads /\ pc[t] = "atForkParent"
  /\ pc' = [pc EXCEPT ![t] = "run"]
  /\ s_wasForked' = TRUE
  /\ UNCHANGED << threads, usedTids, s_mainThreadId,
                  t_isMainThread, handlers, generation, hookRan, hasForked,
                  initCallers, initCalls, initCallsHere, logged, result >>
  /\ UNCHANGED profileVars

\* atForkParent() runs in the parent; it returns without a write on either
\* branch
AtForkParent(t) ==
  /\ t \in threads /\ pc[t] = "atForkParent"
  /\ pc' = [pc EXCEPT ![t] = "run"]
  /\ UNCHANGED << threads, usedTids, s_mainThreadId, s_wasForked,
                  t_isMainThread, handlers, generation, hookRan, hasForked,
                  initCallers, initCalls, initCallsHere, logged, result >>
  /\ UNCHANGED profileVars

\* a child hook that returns early on a thread other than the main thread,
\* as the other two hooks do
AtForkChild_MainThreadOnly(t) ==
  /\ t \in threads /\ pc[t] = "atForkChild"
  /\ s_wasForked' = (s_wasForked \/ t = s_mainThreadId)
  /\ hookRan' = TRUE
  /\ pc' = [pc EXCEPT ![t] = "run"]
  /\ UNCHANGED << threads, usedTids, s_mainThreadId, t_isMainThread,
                  handlers, generation, hasForked, initCallers, initCalls,
                  initCallsHere,
                  logged, result >>
  /\ UNCHANGED profileVars

\* atForkChild() runs in the child
AtForkChild(t) ==
  /\ t \in threads /\ pc[t] = "atForkChild"
  /\ s_wasForked' = atForkChild
  /\ hookRan' = TRUE
  /\ pc' = [pc EXCEPT ![t] = "run"]
  /\ UNCHANGED << threads, usedTids, s_mainThreadId, t_isMainThread,
                  handlers, generation, hasForked, initCallers, initCalls,
                  initCallsHere,
                  logged, result >>
  /\ UNCHANGED profileVars

\* ------------------------------------------------------------------------
\* Specifications
\* ------------------------------------------------------------------------
\* the profile codec and the encryption protocol
Init ==
  /\ ProfileInit
  /\ TrackerInit

Next ==
  \/ \E seed \in Seeds, f \in Failures : Encrypt(seed, f)
  \/ \E b \in BlobChoices : Decrypt(b)
  \/ ToJson
  \/ \E j \in ForeignWires : Receive(j)
  \/ FromJson

Spec == Init /\ [][Next]_vars

\* the tracker in a process and in the children forked from it
TrackerSpecInit ==
  /\ ProfileInit
  /\ profile = DefaultProfile
  /\ TrackerInit

TrackerNext ==
  \/ \E t \in Tids, rc \in {0, 1} : SetupForkHandlers(t, rc)
  \/ \E t \in Tids : InitThreadId(t)
  \/ \E t \in Tids : IsMainThread(t)
  \/ \E t \in Tids, n \in Tids : SpawnThread(t, n)
  \/ \E t \in Tids : PrepareFork(t)
  \/ \E t \in Tids : ForkSyscallParent(t)
  \/ \E t \in Tids : ForkSyscallChild(t)
  \/ \E t \in Tids : ForkNoHandlersParent(t)
  \/ \E t \in Tids : ForkNoHandlersChild(t)
  \/ \E t \in Tids : AtForkParent(t)
  \/ \E t \in Tids : AtForkChild(t)

TrackerSpec == TrackerSpecInit /\ [][TrackerNext]_vars

\* the codec on structured values of any shape
DecodeSpecInit ==
  /\ ProfileInit
  /\ \/ profile = DefaultProfile
     \/ profile.config.limits = ProfileC.config.limits
  /\ TrackerInit

DecodeNext ==
  \/ \E i \in 1..Len(DecodeWires) : Receive(DecodeWires[i])
  \/ FromJson
  \/ ToJson

DecodeSpec == DecodeSpecInit /\ [][DecodeNext]_vars

\* ------------------------------------------------------------------------
\* Properties of the encryption protocol
\* ------------------------------------------------------------------------
Range(f) == {f[x] : x \in DOMAIN f}

\* the strings held by the fields of a profile
ProfileStrings(p) ==
  {p.password, p.encryptionKey, p.executablePath, p.config.stdInput,
   p.context.username, p.context.scope.project, p.context.scope.id}
  \cup Range(p.config.args)
  \cup DOMAIN p.config.environment
  \cup Range(p.config.environment)

\* the strings held by the members of a structured profile
JsonStrings(j) ==
  {j.password.v, j.encryptionKey.v, j.executablePath.v, j.config.v.stdInput.v,
   j.context.v.username.v, j.context.v.project.v, j.context.v.id.v}
  \cup {a.v : a \in Range(j.config.v.args.v)}
  \cup DOMAIN j.config.v.environment.v
  \cup {e.v : e \in Range(j.config.v.environment.v)}

\* C1: in every state after encryptProfilePassword succeeded on the profile
\* and before a successful decryptProfilePassword on it, the password is the
\* empty string and the encryption key is not empty, whatever the password was
C1_EncryptedHasNoPassword ==
  encInfo.active =>
    /\ profile.password = EmptyStr
    /\ profile.encryptionKey # EmptyStr

\* a profile with a non-empty password was encrypted and a decryption with a
\* wrong blob has failed on it since
C1_Witness ==
  /\ encInfo.active
  /\ encInfo.orig.password # EmptyStr
  /\ last.op = "decrypt"
  /\ last.error # ""

\* C2: decryptProfilePassword with the blob that the successful
\* encryptProfilePassword of a profile with password P returned succeeds and
\* leaves password = P and encryptionKey = ""
C2_DecryptInvertsEncrypt ==
  [][(/\ encInfo.active
      /\ last'.op = "decrypt"
      /\ last'.blob = encInfo.blob)
     => (/\ last'.error = ""
         /\ profile'.password = encInfo.orig.password
         /\ profile'.encryptionKey = EmptyStr)]_vars

\* a password that contains the delimiter has come back from its blob
C2_Witness ==
  /\ last.op = "decrypt"
  /\ last.paired = "enc"
  /\ last.error = ""
  /\ Pipe \in Range(profile.password)
  /\ profile.encryptionKey = EmptyStr

\* C3 as stated: after a successful encryptProfilePassword no field of the
\* profile and no member of its structured form holds the returned blob or
\* the plaintext password
C3_NoFieldHoldsBlobOrPlaintext ==
  encInfo.active =>
    \A str \in ProfileStrings(profile)
                 \cup JsonStrings(sessionLaunchProfileToJson(profile).v) :
      /\ str # encInfo.blob
      /\ str # encInfo.orig.password

\* C3 amended: after a successful encryptProfilePassword the password is the
\* empty string, the encryption key is two base64 parts joined by "|" and
\* differs from the returned blob, which is not empty, every other field is as
\* it was before the call, and the structured form holds the same strings
C3_BlobNotInProfile ==
  encInfo.active =>
    /\ profile.password = EmptyStr
    /\ encInfo.blob # EmptyStr
    /\ profile.encryptionKey # encInfo.blob
    /\ Len(split(profile.encryptionKey, Pipe)) = 2
    /\ profile = [encInfo.orig EXCEPT
                    !.password = EmptyStr,
                    !.encryptionKey = profile.encryptionKey]
    /\ LET j == sessionLaunchProfileToJson(profile).v
           o == sessionLaunchProfileToJson(encInfo.orig).v
       IN /\ j.password.v = EmptyStr
          /\ j.encryptionKey.v = profile.encryptionKey
          /\ j.executablePath = o.executablePath
          /\ j.context = o.context
          /\ j.config = o.config

\* a profile whose stdInput equals its password has been encrypted
C3_Witness ==
  /\ encInfo.active
  /\ last.op = "encrypt"
  /\ last.error = ""
  /\ encInfo.orig.password # EmptyStr
  /\ profile.config.stdInput = encInfo.orig.password
  /\ encryptedPassword = encInfo.blob

\* C4: when a step of encryptProfilePassword fails the call returns the
\* error of that step and the profile is as it was before the call
C4_FailedEncryptKeepsProfile ==
  [][(last'.op = "encrypt" /\ last'.error # "")
     => (/\ profile' = profile
         /\ last'.error \in {"random", "encryptDataAsBase64EncodedString",
                             "base64Encode"})]_vars

\* the last step, the base64 encoding of the key, failed on a profile with a
\* password: the blob was produced, the password is still there
C4_Witness ==
  /\ last.op = "encrypt"
  /\ last.error = "base64Encode"
  /\ profile.password # EmptyStr
  /\ profile.encryptionKey = EmptyStr
  /\ encryptedPassword # EmptyStr

\* C5: decryptProfilePassword on a profile whose encryption key does not
\* split on "|" into exactly two parts returns the invalid format error,
\* calls neither the base64 decoder nor the cipher, and leaves the profile
\* unchanged
C5_BadKeyFormatRejected ==
  [][(/\ last'.op = "decrypt"
      /\ Len(split(profile.encryptionKey, Pipe)) # 2)
     => (/\ last'.error = InvalidKeyFormat
         /\ last'.steps = << "split" >>
         /\ profile' = profile)]_vars

\* the key "a|b|c" was rejected and a password is still in the profile
C5_Witness ==
  /\ last.op = "decrypt"
  /\ last.error = InvalidKeyFormat
  /\ profile.encryptionKey = << 97, Pipe, 98, Pipe, 99 >>
  /\ profile.password # EmptyStr

\* C6: when the key has two parts and the base64 decoding of the key or the
\* decryption of the blob fails, decryptProfilePassword returns the error of
\* that step and leaves the profile unchanged, key material included
C6_FailedDecryptKeepsProfile ==
  [][(/\ last'.op = "decrypt"
      /\ Len(split(profile.encryptionKey, Pipe)) = 2
      /\ last'.error # "")
     => (/\ last'.error \in {"base64Decode", "decryptBase64EncodedString"}
         /\ profile' = profile
         /\ profile'.encryptionKey # EmptyStr)]_vars

\* the decryption of a wrong blob failed on an encrypted profile, which is
\* still encrypted
C6_Witness ==
  /\ last.op = "decrypt"
  /\ last.error = "decryptBase64EncodedString"
  /\ encInfo.active
  /\ last.blob # encInfo.blob


\* C7: wasForked() is monotonic per process: it is false in a process that
\* was not created by a fork, it is true in a forked child once the child
\* hook has run, and once it is true no tracker operation, hook or further
\* fork makes it false again.
C7_WasForkedMonotonic ==
  /\ [](generation = 0 => ~wasForked)
  /\ [](hookRan => wasForked)
  /\ [][wasForked => wasForked']_vars

\* a child of a forked child, in which the hook has run, the tracker has
\* been initialised and the flag reads true
C7_Witness ==
  /\ generation = MaxGenerations
  /\ hookRan
  /\ wasForked
  /\ initCalls > 0
  /\ \A t \in threads : pc[t] = "run"

\* C8: once initThreadId() has been called, every call of isMainThread()
\* returns true on a thread that executed initThreadId() and false on any
\* other thread, in the original process as well as in a forked child, and
\* the thread-local flags of all threads agree with that.
C8_IsMainThreadIdentifiesInitThread ==
  /\ [](initCalls > 0 =>
          \A t \in threads : isMainThread(t) = (t \in initCallers))
  /\ [][\A t \in Tids :
          (initCalls > 0 /\ IsMainThread(t)) =>
             result' = [t |-> t, res |-> t \in initCallers]]_vars

\* in a forked child the call has returned false on a thread other than the
\* one that executed initThreadId(), which is alive and holds the flag
C8_Witness ==
  /\ generation > 0
  /\ initCalls > 0
  /\ result.t \in threads
  /\ result.t \notin initCallers
  /\ ~result.res
  /\ \E m \in threads : m \in initCallers /\ isMainThread(m)

\* the fields of a profile other than password and encryptionKey
NonPasswordFields(p) ==
  [username |-> p.context.username,
   project |-> p.context.scope.project,
   id |-> p.context.scope.id,
   executablePath |-> p.executablePath,
   args |-> p.config.args,
   environment |-> p.config.environment,
   stdInput |-> p.config.stdInput,
   stdStreamBehavior |-> p.config.stdStreamBehavior,
   priority |-> p.config.limits.priority,
   memoryLimitBytes |-> p.config.limits.memoryLimitBytes,
   stackLimitBytes |-> p.config.limits.stackLimitBytes,
   userProcessesLimit |-> p.config.limits.userProcessesLimit,
   cpuLimit |-> p.config.limits.cpuLimit,
   niceLimit |-> p.config.limits.niceLimit,
   filesLimit |-> p.config.limits.filesLimit,
   cpuAffinity |-> p.config.limits.cpuAffinity]

\* C9: for a profile with a plaintext password and no encryption key,
\* encryptProfilePassword, sessionLaunchProfileToJson,
\* sessionLaunchProfileFromJson and decryptProfilePassword with the blob the
\* encryption returned succeed and yield a profile equal to the original in
\* every field.
C9_EndToEndRestoresProfile ==
  [][(/\ origin.active
      /\ origin.orig.encryptionKey = EmptyStr
      /\ last'.op = "decrypt"
      /\ last'.blob = origin.blob)
     => (last'.error = "" /\ profile' = origin.orig)]_vars

\* C10: sessionLaunchProfileFromJson(sessionLaunchProfileToJson(p))
\* reproduces every field of p other than password and encryptionKey:
\* context, executablePath, args, environment, stdInput, stdStreamBehavior,
\* priority, the six limits and cpuAffinity.
C10_RoundTripReproducesFields ==
  [][(wireSrc.known /\ last'.op = "fromJson")
     => NonPasswordFields(profile') = NonPasswordFields(wireSrc.profile)]_vars


\* ------------------------------------------------------------------------
\* Properties of the decoder
\* ------------------------------------------------------------------------
\* the structured profile w with its cpuAffinity array replaced
WithAffinity(w, arr) ==
  SetMember(w, "config", JObj(SetMember(w.config.v, "cpuAffinity", JArr(arr))))

\* the cpuAffinity array of w is read and has an element that is no boolean
HasMixedAffinity(w) ==
  LET r == FromJsonReads(w)
  IN /\ r.affRd.error = ""
     /\ \E i \in 1..Len(r.affRd.out.cpuAffinity) :
          r.affRd.out.cpuAffinity[i].t # "bool"

\* C11: when the cpuAffinity array of the structured profile has an element
\* that is not a boolean, cpuAffinityFromJson returns ParamTypeMismatch and
\* sessionLaunchProfileFromJson returns a profile whose cpuAffinity is empty
\* (not the booleans before the offending element) and whose other fields
\* are what the decoder returns for the same input with a valid array.
C11_MixedAffinityDecodesEmpty ==
  [][(last'.op = "fromJson" /\ HasMixedAffinity(wire))
     => /\ last'.steps[5] = "ParamTypeMismatch"
        /\ profile'.config.limits.cpuAffinity = << >>
        /\ [profile' EXCEPT !.config.limits.cpuAffinity = << TRUE >>]
             \in sessionLaunchProfileFromJson(
                   WithAffinity(wire, << JBool(TRUE) >>))]_vars

\* a decoded profile whose affinity array was rejected: the affinity is
\* empty and the other fields are those of the input
C11_Witness ==
  /\ last.op = "fromJson"
  /\ last.steps = << "", "", "", "", "ParamTypeMismatch" >>
  /\ profile.config.limits.cpuAffinity = << >>
  /\ profile.password = << 112, 119 >>
  /\ profile.config.args = ProfileA.config.args
  /\ profile.config.limits.memoryLimitBytes = TwoBillion


\* the member name of obj when it is there and has the type, else default
MemberOr(obj, name, type, default) ==
  IF name \in DOMAIN obj /\ isType(type, obj[name])
  THEN obj[name].v
  ELSE default

\* the profile in which every field that is in w with its type holds the
\* value of w and every other field holds its default
BestEffortProfile(w) ==
  LET ctx == MemberOr(w, "context", "object", EmptyObj)
      cfg == MemberOr(w, "config", "object", EmptyObj)
      aff == MemberOr(cfg, "cpuAffinity", "array", << >>)
  IN [context |->
        [username |-> MemberOr(ctx, "username", "string", EmptyStr),
         scope |-> fromProjectId(MemberOr(ctx, "project", "string", EmptyStr),
                                 MemberOr(ctx, "id", "string", EmptyStr))],
      password |-> MemberOr(w, "password", "string", EmptyStr),
      encryptionKey |-> MemberOr(w, "encryptionKey", "string", EmptyStr),
      executablePath |-> MemberOr(w, "executablePath", "string", EmptyStr),
      config |->
        [args |-> ArgsFromJson(MemberOr(cfg, "args", "array", << >>)),
         environment |->
           EnvFromJson(MemberOr(cfg, "environment", "object", EmptyObj)),
         stdInput |-> MemberOr(cfg, "stdInput", "string", EmptyStr),
         stdStreamBehavior |->
           BitsValue(MemberOr(cfg, "stdStreamBehavior", "int", {})),
         limits |->
           [priority |-> BitsValue(MemberOr(cfg, "priority", "int", {})),
            memoryLimitBytes |-> MemberOr(cfg, "memoryLimitBytes", "double", {}),
            stackLimitBytes |-> MemberOr(cfg, "stackLimitBytes", "double", {}),
            userProcessesLimit |->
              MemberOr(cfg, "userProcessesLimit", "double", {}),
            cpuLimit |-> MemberOr(cfg, "cpuLimit", "double", {}),
            niceLimit |-> MemberOr(cfg, "niceLimit", "double", {}),
            filesLimit |-> MemberOr(cfg, "filesLimit", "double", {}),
            cpuAffinity |->
              IF \A i \in 1..Len(aff) : aff[i].t = "bool"
              THEN [i \in 1..Len(aff) |-> aff[i].v]
              ELSE << >>]]]

\* C12: sessionLaunchProfileFromJson never fails: for every structured
\* value it returns a profile in which every field that could not be read
\* holds its default (empty string, sequence or mapping, 0 for
\* stdStreamBehavior, priority and each limit) and every field that could be
\* read holds the value of the input.
C12_DecodeFillsDefaults ==
  [][last'.op = "fromJson"
     => (last'.error = "" /\ profile' = BestEffortProfile(wire))]_vars


\* the config object of w is there and each of its members, the cpuAffinity
\* array included, is present and well-typed: in an otherwise complete
\* profile it decodes without an error
ConfigWellFormed(w) ==
  /\ "config" \in DOMAIN w
  /\ w.config.t = "obj"
  /\ LET r == FromJsonReads(SetMember(FullWire, "config", w.config))
     IN r.cfg.error = "" /\ r.affRd.error = "" /\ r.aff.error = ""

\* C14: the decode steps are independent: when a top-level member such as
\* "password" is missing or mistyped, or the context object lacks members,
\* the config members and the cpuAffinity array that are present and
\* well-typed in the input are still decoded to their input values.
C14_DecodeStepsIndependent ==
  [][(last'.op = "fromJson" /\ ConfigWellFormed(wire))
     => profile'.config = BestEffortProfile(wire).config]_vars

\* ------------------------------------------------------------------------
\* Properties of the encoder
\* ------------------------------------------------------------------------
\* the names of the six limit scalars
LimitNames ==
  {"memoryLimitBytes", "stackLimitBytes", "userProcessesLimit", "cpuLimit",
   "niceLimit", "filesLimit"}

\* the limit is a value of the unsigned 64-bit encoding
FitsUint64(limit) == \A i \in limit : i < Uint64Bits

C15_ParentHooksChangeNothing ==
  /\ [][\A t \in Tids :
          (PrepareFork(t) \/ AtForkParent(t))
          => UNCHANGED << s_mainThreadId, s_wasForked, t_isMainThread >>]_vars
  /\ [][(hasForked' /\ ~wasForked) => ~wasForked']_vars

\* the original process has forked, and a thread other than the main thread
\* is between the two hooks of a further fork
C15_Witness ==
  /\ generation = 0
  /\ hasForked
  /\ ~wasForked
  /\ s_mainThreadId \in threads
  /\ \E t \in threads : t # s_mainThreadId /\ pc[t] = "atForkParent"

\* C16: atForkChild sets s_wasForked to true whichever thread issued the
\* fork and whether or not initThreadId was called before, and it changes
\* neither s_mainThreadId nor any thread-local flag.
C16_ChildHookSetsFlagOnly ==
  [][\A t \in Tids :
       AtForkChild(t)
       => /\ wasForked'
          /\ UNCHANGED << s_mainThreadId, t_isMainThread >>]_vars

\* the hook has run in a child whose forking thread is not the recorded
\* main thread (none is recorded, or it was another thread of the parent)
C16_Witness ==
  /\ generation > 0
  /\ hookRan
  /\ wasForked
  /\ s_mainThreadId \notin threads

\* C17: isMainThread() always returns and returns the calling thread's
\* thread-local flag; where the flag differs from the comparison of the
\* thread's identity with s_mainThreadId it writes the message to the log and
\* changes nothing else.
C17_IsMainThreadReturnsFlag ==
  /\ [](\A t \in threads : pc[t] = "run" => ENABLED IsMainThread(t))
  /\ [][\A t \in Tids :
          IsMainThread(t)
          => /\ result' = [t |-> t, res |-> t_isMainThread[t]]
             /\ (t_isMainThread[t] # (t = s_mainThreadId))
                  => WrongResult \in logged'
             /\ UNCHANGED << threads, s_mainThreadId, s_wasForked,
                             t_isMainThread, pc >>]_vars

\* after a second initThreadId() on another thread the first thread asked:
\* the call returned its flag, true, and logged the disagreement
C17_Witness ==
  /\ initCallsHere = 2
  /\ result.t \in threads
  /\ result.t # s_mainThreadId
  /\ result.res
  /\ WrongResult \in logged

\* the flag and the comparison of the identity agree on every thread, and
\* the message has not been logged
FlagsAgree ==
  /\ \A t \in threads : isMainThread(t) = sysIsMainThread(t)
  /\ WrongResult \notin logged

\* C18: when no process has called initThreadId() more than once, the
\* thread-local flag and sysIsMainThread agree on every thread in every
\* state, in forked children too, and "isMainThreadCheck - wrong result!" is
\* never logged.
C18_AgreeWhenOncePerProcess == initCallsHere < 2 => FlagsAgree

\* C18 as amended: the same when initThreadId() has been called at most once
\* in the process and its ancestors together.
C18_AgreeWhenCalledOnce == initCalls < 2 => FlagsAgree

\* a forked child with a second thread, initialised before the fork
C18_Witness ==
  /\ generation > 0
  /\ initCalls = 1
  /\ s_mainThreadId \in threads
  /\ isMainThread(s_mainThreadId)
  /\ \E u \in threads : u # s_mainThreadId /\ result = [t |-> u, res |-> FALSE]


\* ------------------------------------------------------------------------
\* Properties of the key material
\* ------------------------------------------------------------------------
\* C19: once decryptProfilePassword has succeeded on a profile, every
\* further decryptProfilePassword on it, with any blob, fails with the
\* invalid key format error, because encryptionKey is empty, and leaves the
\* profile with the recovered password as it is.
C19_KeyIsSingleUse ==
  /\ [](decrypted => profile.encryptionKey = EmptyStr)
  /\ [][(decrypted /\ last'.op = "decrypt")
        => /\ last'.error = InvalidKeyFormat
           /\ profile' = profile
           /\ decrypted']_vars

\* the blob that was decrypted before was offered again and rejected; the
\* recovered password is still there
C19_Witness ==
  /\ decrypted
  /\ last.op = "decrypt"
  /\ last.error = InvalidKeyFormat
  /\ last.blob = encryptedPassword
  /\ last.blob # EmptyStr
  /\ profile.password # EmptyStr

====
